---- MODULE Spec2Model ----
(***************************************************************************)
(* Model of the YouTube Music proxy API (src/music/src/api/app.py).        *)
(*                                                                         *)
(* Text is modelled as a sequence of fragments (short strings).  A         *)
(* fragment is the unit of concatenation and of substring search: the      *)
(* keywords of the error classifier are fragment sequences, and `in` is    *)
(* contiguous containment after lowercasing fragment by fragment.          *)
(***************************************************************************)
EXTENDS Integers, Sequences, FiniteSets, TLC

\* ------------------------------------------------------------------ bounds
MaxLen == 4     \* longest error message, in fragments, the classifier is tried on
NReq == 2       \* request slots that may be in flight together

\* ------------------------------------------------------------ HTTP statuses
HTTP_400_BAD_REQUEST == 400
HTTP_401_UNAUTHORIZED == 401
HTTP_404_NOT_FOUND == 404
HTTP_500_INTERNAL_SERVER_ERROR == 500
HTTP_501_NOT_IMPLEMENTED == 501
HTTP_503_SERVICE_UNAVAILABLE == 503

None == "<None>"

\* ------------------------------------------------------------------- text
\* str.lower() on one fragment
LowerFrag(f) ==
    CASE f = "Authentic" -> "authentic"
      [] f = "ATION" -> "ation"
      [] f = "NOT " -> "not "
      [] f = "Not " -> "not "
      [] f = "Found" -> "found"
      [] f = "In" -> "in"
      [] f = "Valid" -> "valid"
      [] f = "Bad" -> "bad"
      [] f = "BAD" -> "bad"
      [] f = "Could " -> "could "
      [] f = "Please provide " -> "please provide "
      [] f = "Playlist " -> "playlist "
      [] f = "Something went wrong" -> "something went wrong"
      [] OTHER -> f

\* str.lower()
Lower(s) == [i \in 1..Len(s) |-> LowerFrag(s[i])]

\* `needle in s` for strings
Contains(s, needle) ==
    \E i \in 0..(Len(s) - Len(needle)) :
        \A j \in 1..Len(needle) : s[i + j] = needle[j]

KwAuthentication == <<"authentic", "ation">>
KwNotFound == <<"not ", "found">>
KwInvalid == <<"in", "valid">>
KwBad == <<"bad">>
InternalErrorPrefix == <<"Internal error: ">>

HTTPException(status_code, detail) ==
    [status_code |-> status_code, detail |-> detail]

\* variants of the classifier a slip in the rule order or in the case
\* folding would produce
handle_ytmusic_error_swapped(error_msg) ==
    IF Contains(Lower(error_msg), KwNotFound)
    THEN HTTPException(HTTP_404_NOT_FOUND, error_msg)
    ELSE IF Contains(Lower(error_msg), KwAuthentication)
    THEN HTTPException(HTTP_401_UNAUTHORIZED, error_msg)
    ELSE IF Contains(Lower(error_msg), KwInvalid) \/ Contains(Lower(error_msg), KwBad)
    THEN HTTPException(HTTP_400_BAD_REQUEST, error_msg)
    ELSE HTTPException(HTTP_500_INTERNAL_SERVER_ERROR, InternalErrorPrefix \o error_msg)

handle_ytmusic_error(error_msg) ==
    IF Contains(Lower(error_msg), KwAuthentication)
    THEN HTTPException(HTTP_401_UNAUTHORIZED, error_msg)
    ELSE IF Contains(Lower(error_msg), KwNotFound)
    THEN HTTPException(HTTP_404_NOT_FOUND, error_msg)
    ELSE IF Contains(Lower(error_msg), KwInvalid) \/ Contains(Lower(error_msg), KwBad)
    THEN HTTPException(HTTP_400_BAD_REQUEST, error_msg)
    ELSE HTTPException(HTTP_500_INTERNAL_SERVER_ERROR, InternalErrorPrefix \o error_msg)

\* fragments the classifier is tried on: the keywords' parts in both cases
\* and a neutral filler
Frags == {"authentic", "Authentic", "ation", "not ", "found", "in", "valid", "Bad", "x"}

RECURSIVE SeqsUpTo(_, _)
SeqsUpTo(S, n) ==
    IF n = 0 THEN {<< >>}
    ELSE LET shorter == SeqsUpTo(S, n - 1)
         IN shorter \cup {Append(s, f) : s \in {t \in shorter : Len(t) = n - 1}, f \in S}

Messages == SeqsUpTo(Frags, MaxLen)

\* ---------------------------------------------------------------- routing
\* A path is the sequence of its segments: "/api/podcasts/x" is
\* <<"api", "podcasts", "x">> and "/api/podcasts/" is <<"api", "podcasts", "">>.
\* In a route pattern "{}" is a one-segment parameter ({playlist_id}) and
\* "{path}" as last element is a {path:path} parameter.
Param == "{}"
PathParam == "{path}"

Methods == {"GET", "POST", "PUT", "DELETE", "PATCH"}
\* a stub registered for GET alone
StubMethodsGetOnly == {"GET"}

\* methods=["GET", "POST", "PUT", "DELETE"] of the stub routes
StubMethods == {"GET", "POST", "PUT", "DELETE"}

Route(methods, pattern, ep) ==
    [methods |-> methods, pattern |-> pattern, endpoint |-> ep]

\* the route table of `app`, in registration order
Routes == <<
    Route({"GET"}, <<"health">>, "health_check"),
    Route({"POST"}, <<"api", "setup">>, "setup_browser"),
    Route({"POST"}, <<"api", "setup", "oauth">>, "setup_oauth"),
    Route({"GET"}, <<"api", "playlists", Param>>, "get_playlist"),
    Route({"POST"}, <<"api", "playlists">>, "create_playlist"),
    Route({"PUT"}, <<"api", "playlists", Param>>, "edit_playlist"),
    Route({"DELETE"}, <<"api", "playlists", Param>>, "delete_playlist"),
    Route({"POST"}, <<"api", "playlists", Param, "items">>, "add_playlist_items"),
    Route({"DELETE"}, <<"api", "playlists", Param, "items">>, "remove_playlist_items"),
    Route({"GET"}, <<"api", "library", "playlists">>, "get_library_playlists"),
    Route({"GET"}, <<"api", "library", "songs">>, "get_library_songs"),
    Route({"GET"}, <<"api", "library", "albums">>, "get_library_albums"),
    Route({"GET"}, <<"api", "library", "artists">>, "get_library_artists"),
    Route({"GET"}, <<"api", "library", "liked-songs">>, "get_liked_songs"),
    Route({"GET"}, <<"api", "library", "history">>, "get_history"),
    Route({"POST"}, <<"api", "library", "songs", Param, "rate">>, "rate_song"),
    Route({"POST"}, <<"api", "library", "artists", "subscribe">>, "subscribe_artists"),
    Route({"GET"}, <<"api", "uploads", "songs">>, "get_upload_songs"),
    Route({"GET"}, <<"api", "uploads", "albums">>, "get_upload_albums"),
    Route({"POST"}, <<"api", "uploads", "songs">>, "upload_song"),
    Route({"DELETE"}, <<"api", "uploads", Param>>, "delete_upload"),
    Route(StubMethods, <<"api", "podcasts", PathParam>>, "podcasts_stub"),
    Route(StubMethods, <<"api", "explore", PathParam>>, "explore_stub"),
    Route({"GET"}, <<"api", "search">>, "search"),
    Route(StubMethods, <<"api", "browsing", PathParam>>, "browsing_stub")
>>

\* does the path match the pattern (the route's compiled path regex)
RECURSIVE PathMatches(_, _)
PathMatches(pattern, path) ==
    IF pattern = << >> THEN path = << >>
    ELSE IF Head(pattern) = PathParam THEN Len(path) >= 1
    ELSE IF path = << >> THEN FALSE
    ELSE /\ \/ Head(pattern) = Head(path)
            \/ Head(pattern) = Param /\ Head(path) # ""
         /\ PathMatches(Tail(pattern), Tail(path))

\* The router tries the routes in order: the first route matching path and
\* method handles the request; if none does, the first route matching the
\* path alone answers 405; otherwise 404.
FullMatches(method, path) ==
    {i \in 1..Len(Routes) : PathMatches(Routes[i].pattern, path) /\ method \in Routes[i].methods}

PartialMatches(path) ==
    {i \in 1..Len(Routes) : PathMatches(Routes[i].pattern, path)}

Min(S) == CHOOSE x \in S : \A y \in S : x <= y

Dispatch(method, path) ==
    IF FullMatches(method, path) # {} THEN Routes[Min(FullMatches(method, path))].endpoint
    ELSE IF PartialMatches(path) # {} THEN "method_not_allowed"
    ELSE "not_found"

\* endpoints whose signature takes `ytmusic: TYtMusic`
UsesYtMusic == {"get_playlist", "create_playlist", "edit_playlist", "delete_playlist",
                "add_playlist_items", "remove_playlist_items", "get_library_playlists",
                "get_library_songs", "get_library_albums", "get_library_artists",
                "get_liked_songs", "get_history", "rate_song", "subscribe_artists",
                "get_upload_songs", "get_upload_albums", "upload_song", "delete_upload",
                "search"}

\* ------------------------------------------------------------ file system
AuthFile == "/srv/browser.json"
MissingFile == "/nonexistent/file.json"
UploadNames == {"a.mp3", "b.mp3"}
TmpPathOf(filename) ==
    CASE filename = "a.mp3" -> "/tmp/a.mp3"
      [] filename = "b.mp3" -> "/tmp/b.mp3"
TmpPaths == {TmpPathOf(n) : n \in UploadNames}
\* the name tempfile.NamedTemporaryFile(suffix=".json") picks
SetupTmp == "/tmp/tmpk3v9.json"
BrowserJson == "browser.json"
Paths == {AuthFile, MissingFile, SetupTmp, BrowserJson} \cup TmpPaths

File(kind, owner) == [kind |-> kind, owner |-> owner]
Absent == File("absent", 0)
Foreign == File("foreign", 0)
Exists(files, path) == files[path] # Absent

\* ------------------------------------------------------- credential resolver
EmptyHeader == ""
BadJson == "{not json"
JsonList == "[1]"
JsonDict == "{\"cookie\": \"c\"}"
AuthDataValues == {None, EmptyHeader, BadJson, JsonList, JsonDict}
AuthFileValues == {None, EmptyHeader, AuthFile, MissingFile, BrowserJson}

\* json.loads: the type of the decoded value, or the decode error
JsonLoads(text) ==
    CASE text = JsonDict -> "dict"
      [] text = JsonList -> "list"
      [] OTHER -> "JSONDecodeError"

\* `if x:` on an optional header value
Truthy(header) == header # None /\ header # EmptyHeader

CtorError == <<"YTMusic initialization failed">>
NoHandle == [auth |-> "none", arg |-> None]
Handle(auth, arg) == [auth |-> auth, arg |-> arg]

Resolved(outcome, handle, error, ctor, stat) ==
    [outcome |-> outcome, ytmusic |-> handle, exc |-> error, ctor |-> ctor, stat |-> stat]

NoExc == HTTPException(0, << >>)

\* the inline branch without its `except json.JSONDecodeError`: the decode
\* error is reported by the general except clause only if it is an
\* Exception the clause sees, and here it escapes
FromInlineUncaught(x_auth_data, ctor_ok) ==
    IF JsonLoads(x_auth_data) = "JSONDecodeError"
    THEN Resolved("raise", NoHandle, HTTPException(0, <<"JSONDecodeError">>), << >>, << >>)
    ELSE IF JsonLoads(x_auth_data) # "dict"
    THEN Resolved("raise", NoHandle, HTTPException(0, <<"AttributeError">>), << >>, << >>)
    ELSE IF ctor_ok
    THEN Resolved("return", Handle("inline", x_auth_data), NoExc,
                  <<Handle("inline", x_auth_data)>>, << >>)
    ELSE Resolved("HTTPException", NoHandle,
             HTTPException(HTTP_400_BAD_REQUEST, <<"Authentication failed: ">> \o CtorError),
             <<Handle("inline", x_auth_data)>>, << >>)

\* `if x_auth_data:` branch of get_ytmusic (app.py 47-63)
FromInline(x_auth_data, ctor_ok) ==
    IF JsonLoads(x_auth_data) = "JSONDecodeError"
    THEN Resolved("HTTPException", NoHandle,
             HTTPException(HTTP_400_BAD_REQUEST,
                           <<"Invalid JSON in X-Auth-Data header: ", "JSONDecodeError">>),
             << >>, << >>)
    ELSE IF JsonLoads(x_auth_data) # "dict"
    THEN \* auth_dict.keys() raises AttributeError, caught by `except Exception`
         Resolved("HTTPException", NoHandle,
             HTTPException(HTTP_400_BAD_REQUEST, <<"Authentication failed: ", "AttributeError">>),
             << >>, << >>)
    ELSE IF ctor_ok
    THEN Resolved("return", Handle("inline", x_auth_data), NoExc,
                  <<Handle("inline", x_auth_data)>>, << >>)
    ELSE Resolved("HTTPException", NoHandle,
             HTTPException(HTTP_400_BAD_REQUEST, <<"Authentication failed: ">> \o CtorError),
             <<Handle("inline", x_auth_data)>>, << >>)

\* the file branch without its existence test: the constructor is handed
\* the path and fails on a missing file
FromFileUnchecked(x_auth_file, files, ctor_ok) ==
    IF ctor_ok /\ Exists(files, x_auth_file)
    THEN Resolved("return", Handle("file", x_auth_file), NoExc,
                  <<Handle("file", x_auth_file)>>, << >>)
    ELSE Resolved("raise", NoHandle, HTTPException(0, CtorError),
                  <<Handle("file", x_auth_file)>>, << >>)

\* `if x_auth_file:` branch of get_ytmusic (app.py 65-76)
FromFile(x_auth_file, files, ctor_ok) ==
    IF ~Exists(files, x_auth_file)
    THEN Resolved("HTTPException", NoHandle,
             HTTPException(HTTP_400_BAD_REQUEST,
                           <<"Authentication file not found: ", x_auth_file>>),
             << >>, <<x_auth_file>>)
    ELSE IF ctor_ok
    THEN Resolved("return", Handle("file", x_auth_file), NoExc,
                  <<Handle("file", x_auth_file)>>, <<x_auth_file>>)
    ELSE \* YTMusic(str(auth_path)) is outside any try
         Resolved("raise", NoHandle, HTTPException(0, CtorError),
                  <<Handle("file", x_auth_file)>>, <<x_auth_file>>)

\* `return YTMusic()` of get_ytmusic (app.py 78), outside any try
Anonymous(ctor_ok) ==
    IF ctor_ok
    THEN Resolved("return", Handle("anonymous", None), NoExc,
                  <<Handle("anonymous", None)>>, << >>)
    ELSE Resolved("raise", NoHandle, HTTPException(0, CtorError),
                  <<Handle("anonymous", None)>>, << >>)

\* the resolver with the two header tests in the other order
get_ytmusic_file_first(x_auth_file, x_auth_data, files, ctor_ok) ==
    IF Truthy(x_auth_file) THEN FromFile(x_auth_file, files, ctor_ok)
    ELSE IF Truthy(x_auth_data) THEN FromInline(x_auth_data, ctor_ok)
    ELSE Anonymous(ctor_ok)

\* get_ytmusic.  `files` is the server's file system and `ctor_ok` whether the
\* YTMusic constructor, if it is reached, returns (TRUE) or raises CtorError.
\* The result carries the constructor calls made (ctor) and the paths whose
\* existence was tested (stat).
get_ytmusic(x_auth_file, x_auth_data, files, ctor_ok) ==
    IF Truthy(x_auth_data) THEN FromInline(x_auth_data, ctor_ok)
    ELSE IF Truthy(x_auth_file) THEN FromFile(x_auth_file, files, ctor_ok)
    ELSE Anonymous(ctor_ok)

\* ------------------------------------------------------------ request data
Req == 1..NReq

SamplePaths == {
    <<"health">>, <<"api", "setup">>, <<"api", "setup", "oauth">>,
    <<"api", "playlists">>, <<"api", "playlists", "PL123">>,
    <<"api", "playlists", "PL123", "items">>,
    <<"api", "library", "playlists">>, <<"api", "library", "songs">>,
    <<"api", "library", "albums">>, <<"api", "library", "artists">>,
    <<"api", "library", "liked-songs">>, <<"api", "library", "history">>,
    <<"api", "library", "songs", "vid123", "rate">>,
    <<"api", "library", "artists", "subscribe">>,
    <<"api", "uploads", "songs">>, <<"api", "uploads", "albums">>,
    <<"api", "uploads", "ent123">>,
    <<"api", "podcasts", "test">>, <<"api", "podcasts", "a", "b">>,
    <<"api", "podcasts", "">>,
    <<"api", "explore", "test">>, <<"api", "explore", "">>,
    <<"api", "browsing", "test">>, <<"api", "browsing", "a", "b">>,
    <<"api", "search">>, <<"api", "search", "test">>,
    <<"nope">>
}

\* A body (JSON body, query string or multipart form) is a record of the
\* fields the caller sent.
NoBody == [none |-> TRUE]

\* the fields the endpoint's request model requires
Required(ep) ==
    CASE ep = "create_playlist" -> {"title", "description"}
      [] ep = "edit_playlist" -> {"json"}
      [] ep = "add_playlist_items" -> {"video_ids"}
      [] ep = "remove_playlist_items" -> {"videos"}
      [] ep = "rate_song" -> {"rating"}
      [] ep = "subscribe_artists" -> {"channel_ids"}
      [] ep = "setup_browser" -> {"headers_raw"}
      [] ep = "upload_song" -> {"file"}
      [] ep = "search" -> {"q"}
      [] OTHER -> {}

\* LikeStatus, the type of RateSong.rating
LikeStatus == {"LIKE", "DISLIKE", "INDIFFERENT"}

\* does the body pass the endpoint's request model
Valid(ep, body) ==
    /\ Required(ep) \subseteq DOMAIN body
    /\ ep = "rate_song" => body.rating \in LikeStatus

BodiesFor(ep) ==
    CASE ep = "create_playlist" ->
            {[title |-> "Test Playlist"],
             [title |-> "Test Playlist", description |-> "Test Description"],
             [title |-> "Test Playlist", description |-> "Test Description",
              privacy_status |-> "PUBLIC"],
             [title |-> "Test Playlist", description |-> "Test Description",
              privacy_status |-> "PRIVATE"]}
      [] ep = "edit_playlist" ->
            {NoBody, [json |-> TRUE], [json |-> TRUE, title |-> "Updated Title"]}
      [] ep = "add_playlist_items" -> {NoBody, [video_ids |-> "vid1,vid2"]}
      [] ep = "remove_playlist_items" -> {NoBody, [videos |-> "vid1/set1"]}
      [] ep = "rate_song" -> {NoBody, [rating |-> "LIKE"], [rating |-> "MEH"]}
      [] ep = "subscribe_artists" -> {NoBody, [channel_ids |-> "ch1,ch2"]}
      [] ep = "setup_browser" ->
            {NoBody, [headers_raw |-> "cookie: test"],
             [headers_raw |-> "cookie: test", filepath |-> EmptyHeader],
             [headers_raw |-> "cookie: test", filepath |-> BrowserJson],
             [headers_raw |-> "cookie: other", filepath |-> BrowserJson]}
      [] ep = "upload_song" -> {NoBody} \cup {[file |-> n] : n \in UploadNames}
      [] ep = "search" -> {NoBody, [q |-> "test"], [q |-> "test", filter |-> "songs"]}
      [] OTHER -> {NoBody}

Field(body, name, default) == IF name \in DOMAIN body THEN body[name] ELSE default

Request(method, path, x_auth_file, x_auth_data, body) ==
    [method |-> method, path |-> path, x_auth_file |-> x_auth_file,
     x_auth_data |-> x_auth_data, body |-> body]
NoRequest == Request(None, << >>, None, None, NoBody)

\* a response: who produced it, the status, the error detail and the content
Response(by, status_code, detail, content) ==
    [by |-> by, status_code |-> status_code, detail |-> detail, content |-> content]
NoResponse == Response("none", 0, << >>, << >>)

\* an HTTPException raised by the resolver or by a handler
Raised(by, e) == Response(by, e.status_code, e.detail, << >>)
\* any other exception leaving the endpoint: the server's generic 500
Unhandled == Response("server", HTTP_500_INTERNAL_SERVER_ERROR, <<"Internal Server Error">>, << >>)

\* what one request did: resolver runs, constructor calls, existence tests,
\* upstream operations, what create_playlist returned, classifier runs, the
\* exceptions raised inside the endpoint and the steps the endpoint ran
NoLog == [resolver |-> 0, ctor |-> << >>, stat |-> << >>, upstream |-> << >>,
          returned |-> << >>, classifier |-> 0, raised |-> << >>, steps |-> << >>]

\* errors the upstream client raises
ErrMsgs == {
    <<"Please provide ", "authentic", "ation", " before using this function">>,
    <<"Playlist ", "not ", "found">>,
    <<"In", "valid", " privacy status">>,
    <<"Bad", " request">>,
    <<"In", "valid", " ", "authentic", "ation">>,
    <<"Something went wrong">>
}

Call(op, args) == [op |-> op, args |-> args]

\* --------------------------------------------------------- create playlist
PlaylistResultErrorMsg == <<"Could ", "not ", "extract playlist_id from response">>

\* results of the upstream create_playlist: a string, or a mapping whose
\* playlistId and id entries are None (absent), empty or an id
IdValues == {None, "", "PL123", "PL456"}
StrResult(value) == [type |-> "str", value |-> value, playlistId |-> None, id |-> None]
DictResult(playlistId, id) == [type |-> "dict", value |-> None, playlistId |-> playlistId, id |-> id]
CreateResults ==
    {StrResult(v) : v \in {"", "PL123"}} \cup
    {DictResult(a, b) : a \in IdValues, b \in IdValues}

\* `x or y`
Or(x, y) == IF x # None /\ x # "" THEN x ELSE y

Extracted(raised, id) == [raised |-> raised, id |-> id]

\* extraction that reads `playlistId` alone
\* (a missing fallback to `id`)
_get_playlist_id_no_fallback(result) ==
    LET id == IF result.type = "dict" THEN result.playlistId ELSE result.value
    IN IF id = None \/ id = "" THEN Extracted(TRUE, None) ELSE Extracted(FALSE, id)

\* _get_playlist_id: raised means PlaylistResultError
_get_playlist_id(result) ==
    LET id == IF result.type = "dict" THEN Or(result.playlistId, result.id) ELSE result.value
    IN IF id = None \/ id = "" THEN Extracted(TRUE, None) ELSE Extracted(FALSE, id)

\* a CreatePlaylist model whose privacy_status has no default
CreatePlaylistModelNoDefault(body) ==
    [title |-> body.title, description |-> body.description,
     privacy_status |-> Field(body, "privacy_status", None)]

\* CreatePlaylist request model: privacy_status defaults to "PRIVATE"
CreatePlaylistModel(body) ==
    [title |-> body.title, description |-> body.description,
     privacy_status |-> Field(body, "privacy_status", "PRIVATE")]

VARIABLES
    exc,        \* classifier on its own: the error message
    http_exc,   \* classifier on its own: the HTTPException returned
    pc,         \* per request: idle, received, depends, validate, endpoint, reading, done
    req,        \* per request: the request
    endpoint,   \* per request: the endpoint the router chose
    ytmusic,    \* per request: the client handle the resolver returned
    temp_path,  \* per request: upload_song's temp_path
    resp,       \* per request: the response
    log,        \* per request: what the request did
    fs          \* the server's file system

cvars == <<exc, http_exc>>
rvars == <<pc, req, endpoint, ytmusic, temp_path, resp, log, fs>>
vars == <<exc, http_exc, pc, req, endpoint, ytmusic, temp_path, resp, log, fs>>

InitRequests ==
    /\ pc = [r \in Req |-> "idle"]
    /\ req = [r \in Req |-> NoRequest]
    /\ endpoint = [r \in Req |-> None]
    /\ ytmusic = [r \in Req |-> NoHandle]
    /\ temp_path = [r \in Req |-> None]
    /\ resp = [r \in Req |-> NoResponse]
    /\ log = [r \in Req |-> NoLog]

\* the auth file exists and nothing else does
InitFs == fs = [p \in Paths |-> IF p = AuthFile THEN Foreign ELSE Absent]

\* the same, and /tmp may hold files of other programs under the names an
\* upload will use
InitFsUpload ==
    fs \in {f \in [Paths -> {Absent, Foreign}] :
                \A p \in Paths \ TmpPaths : f[p] = (IF p = AuthFile THEN Foreign ELSE Absent)}

\* ---------------------------------------------------- classifier on its own
InitClassify ==
    /\ exc \in Messages
    /\ http_exc = NoExc
    /\ InitRequests
    /\ InitFs

Classify ==
    /\ http_exc = NoExc
    /\ http_exc' = handle_ytmusic_error(exc)
    /\ UNCHANGED <<exc, rvars>>

NextClassify == Classify

SpecClassify == InitClassify /\ [][NextClassify]_vars

\* ------------------------------------------------------------ one request
Finish(r, response) ==
    /\ resp' = [resp EXCEPT ![r] = response]
    /\ pc' = [pc EXCEPT ![r] = "done"]

\* a request arrives
Arrive(r, request) ==
    /\ pc[r] = "idle"
    /\ req' = [req EXCEPT ![r] = request]
    /\ pc' = [pc EXCEPT ![r] = "received"]
    /\ UNCHANGED <<cvars, endpoint, ytmusic, temp_path, resp, log, fs>>

Receive(r) ==
    /\ pc[r] = "idle"
    /\ \E method \in Methods, path \in SamplePaths :
        \E body \in BodiesFor(Dispatch(method, path)) :
            \E x_auth_file \in AuthFileValues, x_auth_data \in AuthDataValues :
                Arrive(r, Request(method, path, x_auth_file, x_auth_data, body))

\* a router that sends every request straight to its endpoint, as if the
\* endpoints did not declare the dependency
RouterNoDepends(r) ==
    /\ pc[r] = "received"
    /\ LET ep == Dispatch(req[r].method, req[r].path)
       IN IF ep = "not_found"
          THEN /\ Finish(r, Response("router", HTTP_404_NOT_FOUND, <<"Not Found">>, << >>))
               /\ UNCHANGED endpoint
          ELSE IF ep = "method_not_allowed"
          THEN /\ Finish(r, Response("router", 405,
                                     <<"Method Not Allowed">>, << >>))
               /\ UNCHANGED endpoint
          ELSE /\ endpoint' = [endpoint EXCEPT ![r] = ep]
               /\ pc' = [pc EXCEPT ![r] = "validate"]
               /\ UNCHANGED resp
    /\ UNCHANGED <<cvars, req, ytmusic, temp_path, log, fs>>

\* the router picks the endpoint, or answers 404 / 405 itself
Router(r) ==
    /\ pc[r] = "received"
    /\ LET ep == Dispatch(req[r].method, req[r].path)
       IN IF ep = "not_found"
          THEN /\ Finish(r, Response("router", HTTP_404_NOT_FOUND, <<"Not Found">>, << >>))
               /\ UNCHANGED endpoint
          ELSE IF ep = "method_not_allowed"
          THEN /\ Finish(r, Response("router", 405,
                                     <<"Method Not Allowed">>, << >>))
               /\ UNCHANGED endpoint
          ELSE /\ endpoint' = [endpoint EXCEPT ![r] = ep]
               /\ pc' = [pc EXCEPT ![r] = IF ep \in UsesYtMusic THEN "depends" ELSE "validate"]
               /\ UNCHANGED resp
    /\ UNCHANGED <<cvars, req, ytmusic, temp_path, log, fs>>

\* Depends(get_ytmusic): the resolver runs before the endpoint
Depends(r) ==
    /\ pc[r] = "depends"
    /\ \E ctor_ok \in BOOLEAN :
        LET res == get_ytmusic(req[r].x_auth_file, req[r].x_auth_data, fs, ctor_ok)
        IN /\ log' = [log EXCEPT ![r].resolver = @ + 1,
                                 ![r].ctor = @ \o res.ctor,
                                 ![r].stat = @ \o res.stat]
           /\ IF res.outcome = "return"
              THEN /\ ytmusic' = [ytmusic EXCEPT ![r] = res.ytmusic]
                   /\ pc' = [pc EXCEPT ![r] = "validate"]
                   /\ UNCHANGED resp
              ELSE /\ Finish(r, IF res.outcome = "HTTPException"
                                THEN Raised("get_ytmusic", res.exc) ELSE Unhandled)
                   /\ UNCHANGED ytmusic
    /\ UNCHANGED <<cvars, req, endpoint, temp_path, fs>>

\* the request model of the endpoint is validated; a failure is a 422
Validate(r) ==
    /\ pc[r] = "validate"
    /\ IF Valid(endpoint[r], req[r].body)
       THEN /\ pc' = [pc EXCEPT ![r] = "endpoint"]
            /\ UNCHANGED resp
       ELSE Finish(r, Response("validation", 422, <<"Field required">>, << >>))
    /\ UNCHANGED <<cvars, req, endpoint, ytmusic, temp_path, log, fs>>

\* the response is sent and the request's state is dropped
Respond(r) ==
    /\ pc[r] = "done"
    /\ pc' = [pc EXCEPT ![r] = "idle"]
    /\ req' = [req EXCEPT ![r] = NoRequest]
    /\ endpoint' = [endpoint EXCEPT ![r] = None]
    /\ ytmusic' = [ytmusic EXCEPT ![r] = NoHandle]
    /\ temp_path' = [temp_path EXCEPT ![r] = None]
    /\ resp' = [resp EXCEPT ![r] = NoResponse]
    /\ log' = [log EXCEPT ![r] = NoLog]
    /\ UNCHANGED <<cvars, fs>>

AtEndpoint(r, name) == pc[r] = "endpoint" /\ endpoint[r] = name

\* ------------------------------------------------------------------- stubs
Stub(r, name, domain) ==
    /\ AtEndpoint(r, name)
    /\ Finish(r, Response("JSONResponse", HTTP_501_NOT_IMPLEMENTED,
                          <<domain, " domain not implemented">>, << >>))
    /\ UNCHANGED <<cvars, req, endpoint, ytmusic, temp_path, log, fs>>

podcasts_stub(r) == Stub(r, "podcasts_stub", "Podcasts")
explore_stub(r) == Stub(r, "explore_stub", "Explore")
browsing_stub(r) == Stub(r, "browsing_stub", "Browsing")

\* ------------------------------------------------- single-call endpoints
UpstreamOutcomes ==
    {[raised |-> FALSE, msg |-> << >>]} \cup {[raised |-> TRUE, msg |-> m] : m \in ErrMsgs}

Logged(r, call) == [log EXCEPT ![r].upstream = Append(@, call)]

\* an endpoint that tries the upstream call a second time before it gives up
ClassifiedRetrying(r, name, call) ==
    /\ AtEndpoint(r, name)
    /\ \E out \in UpstreamOutcomes :
        IF out.raised
        THEN /\ log' = [log EXCEPT ![r].upstream = @ \o <<call, call>>,
                                   ![r].classifier = @ + 1,
                                   ![r].raised = <<out.msg>>]
             /\ Finish(r, Raised("handle_ytmusic_error", handle_ytmusic_error(out.msg)))
        ELSE /\ log' = Logged(r, call)
             /\ Finish(r, Response(name, 200, << >>, <<"result", call.op>>))
    /\ UNCHANGED <<cvars, req, endpoint, ytmusic, temp_path, fs>>

\* try: return ytmusic.<op>(...)  except Exception as exc: raise handle_ytmusic_error(exc)
Classified(r, name, call) ==
    /\ AtEndpoint(r, name)
    /\ \E out \in UpstreamOutcomes :
        IF out.raised
        THEN /\ log' = [Logged(r, call) EXCEPT ![r].classifier = @ + 1,
                                                 ![r].raised = <<out.msg>>]
             /\ Finish(r, Raised("handle_ytmusic_error", handle_ytmusic_error(out.msg)))
        ELSE /\ log' = Logged(r, call)
             /\ Finish(r, Response(name, 200, << >>, <<"result", call.op>>))
    /\ UNCHANGED <<cvars, req, endpoint, ytmusic, temp_path, fs>>

\* result = ytmusic.<op>(...); return the result or its success envelope.
\* No try: an upstream exception leaves the endpoint as it was raised.
Unclassified(r, name, call) ==
    /\ AtEndpoint(r, name)
    /\ \E out \in UpstreamOutcomes :
        IF out.raised
        THEN /\ log' = [Logged(r, call) EXCEPT ![r].raised = <<out.msg>>]
             /\ Finish(r, Unhandled)
        ELSE /\ log' = Logged(r, call)
             /\ Finish(r, Response(name, 200, << >>, <<"result", call.op>>))
    /\ UNCHANGED <<cvars, req, endpoint, ytmusic, temp_path, fs>>

PathArg(r, i) == req[r].path[i]

get_playlist(r) == Classified(r, "get_playlist", Call("get_playlist", <<PathArg(r, 3)>>))

edit_playlist(r) ==
    Unclassified(r, "edit_playlist",
        Call("edit_playlist", <<PathArg(r, 3), Field(req[r].body, "title", None),
                                Field(req[r].body, "description", None)>>))

delete_playlist(r) ==
    Unclassified(r, "delete_playlist", Call("delete_playlist", <<PathArg(r, 3)>>))

add_playlist_items(r) ==
    Unclassified(r, "add_playlist_items",
        Call("add_playlist_items", <<PathArg(r, 3), Field(req[r].body, "video_ids", None)>>))

remove_playlist_items(r) ==
    Unclassified(r, "remove_playlist_items",
        Call("remove_playlist_items", <<PathArg(r, 3), Field(req[r].body, "videos", None)>>))

get_library_playlists(r) ==
    Classified(r, "get_library_playlists", Call("get_library_playlists", << >>))

get_library_songs(r) == Unclassified(r, "get_library_songs", Call("get_library_songs", << >>))
get_library_albums(r) == Unclassified(r, "get_library_albums", Call("get_library_albums", << >>))
get_library_artists(r) == Unclassified(r, "get_library_artists", Call("get_library_artists", << >>))
get_liked_songs(r) == Unclassified(r, "get_liked_songs", Call("get_liked_songs", << >>))
get_history(r) == Unclassified(r, "get_history", Call("get_history", << >>))

rate_song(r) ==
    Unclassified(r, "rate_song",
        Call("rate_song", <<PathArg(r, 4), Field(req[r].body, "rating", None)>>))

subscribe_artists(r) ==
    Unclassified(r, "subscribe_artists",
        Call("subscribe_artists", <<Field(req[r].body, "channel_ids", None)>>))

get_upload_songs(r) ==
    Unclassified(r, "get_upload_songs", Call("get_library_upload_songs", << >>))
get_upload_albums(r) ==
    Unclassified(r, "get_upload_albums", Call("get_library_upload_albums", << >>))

delete_upload(r) ==
    Unclassified(r, "delete_upload", Call("delete_upload_entity", <<PathArg(r, 3)>>))

search(r) ==
    Classified(r, "search",
        Call("search", <<Field(req[r].body, "q", None), Field(req[r].body, "filter", None)>>))

\* --------------------------------------------------------- create playlist
create_playlist(r) ==
    /\ AtEndpoint(r, "create_playlist")
    /\ LET data == CreatePlaylistModel(req[r].body)
           call == Call("create_playlist", <<data.title, data.description, data.privacy_status>>)
       IN \/ \E msg \in ErrMsgs :
              \* the upstream call raises
              /\ log' = [Logged(r, call) EXCEPT ![r].classifier = @ + 1,
                                                  ![r].raised = <<msg>>,
                                                  ![r].steps = <<"create_playlist">>]
              /\ Finish(r, Raised("handle_ytmusic_error", handle_ytmusic_error(msg)))
          \/ \E result \in CreateResults :
              LET got == _get_playlist_id(result)
              IN IF got.raised
                 THEN /\ log' = [Logged(r, call) EXCEPT
                                    ![r].classifier = @ + 1,
                                    ![r].returned = <<result>>,
                                    ![r].raised = <<PlaylistResultErrorMsg>>,
                                    ![r].steps = <<"create_playlist", "_get_playlist_id">>]
                      /\ Finish(r, Raised("handle_ytmusic_error",
                                          handle_ytmusic_error(PlaylistResultErrorMsg)))
                 ELSE /\ log' = [Logged(r, call) EXCEPT
                                    ![r].returned = <<result>>,
                                    ![r].steps = <<"create_playlist", "_get_playlist_id">>]
                      /\ Finish(r, Response("create_playlist", 200, << >>,
                                            <<"playlist_id", got.id>>))
    /\ UNCHANGED <<cvars, req, endpoint, ytmusic, temp_path, fs>>

\* ------------------------------------------------------------------ upload
\* temp_path = Path(f"/tmp/{file.filename}"); contents = await file.read()
\* The endpoint is suspended at the await: other requests run meanwhile.
upload_song_read(r) ==
    /\ AtEndpoint(r, "upload_song")
    /\ temp_path' = [temp_path EXCEPT ![r] = TmpPathOf(req[r].body.file)]
    /\ pc' = [pc EXCEPT ![r] = "reading"]
    /\ UNCHANGED <<cvars, req, endpoint, ytmusic, resp, log, fs>>

\* write_bytes: done, or failed before the file was created, or failed
\* after it was
WriteOutcomes == {"written", "failed", "failed_partial"}

AfterWrite(files, path, r, write) ==
    CASE write = "written" -> [files EXCEPT ![path] = File("upload", r)]
      [] write = "failed_partial" -> [files EXCEPT ![path] = File("partial", r)]
      [] OTHER -> files

\* finally: if temp_path.exists(): temp_path.unlink()
Unlink(files, path) == IF Exists(files, path) THEN [files EXCEPT ![path] = Absent] ELSE files

\* an upload_song whose cleanup runs on the success path alone
UploadCleanupOnSuccess(files, path, failed) == IF failed THEN files ELSE Unlink(files, path)

\* the finally clause of upload_song: runs whether or not the body failed
UploadCleanup(files, path, failed) == Unlink(files, path)

\* what write_bytes and the upstream upload raise when they fail
WriteError == <<"No space left on device">>
UploadError == <<"Something went wrong">>

\* the rest of upload_song, from the write to the finally clause; it has no
\* await, so it runs without another request in between
upload_song(r) ==
    /\ pc[r] = "reading"
    /\ \E write \in WriteOutcomes, raised \in BOOLEAN :
        LET written == AfterWrite(fs, temp_path[r], r, write)
            call == Call("upload_song", <<temp_path[r], written[temp_path[r]]>>)
            failed == write # "written" \/ raised
            error == IF write # "written" THEN <<WriteError>>
                     ELSE IF raised THEN <<UploadError>> ELSE << >>
        IN /\ log' = [(IF write = "written" THEN Logged(r, call) ELSE log) EXCEPT
                        ![r].raised = error,
                        ![r].steps = IF write = "written"
                                     THEN <<"write_bytes", "upload_song">>
                                     ELSE <<"write_bytes">>]
           /\ fs' = UploadCleanup(written, temp_path[r], failed)
           /\ Finish(r, IF failed THEN Unhandled
                        ELSE Response("upload_song", 200, << >>, <<"result", "upload_song">>))
    /\ UNCHANGED <<cvars, req, endpoint, ytmusic, temp_path>>

\* ------------------------------------------------------------------ health
\* a health check that reports healthy whatever the constructor did
HealthResultAlwaysHealthy(ctor_ok) ==
    Response("health_check", 200, << >>, <<"status", "healthy">>)

\* return HealthCheck(status="healthy"), or the 503 of the except clause
HealthResult(ctor_ok) ==
    IF ctor_ok
    THEN Response("health_check", 200, << >>, <<"status", "healthy">>)
    ELSE Raised("health_check",
                HTTPException(HTTP_503_SERVICE_UNAVAILABLE,
                              <<"Service unhealthy: ">> \o CtorError))

health_check(r) ==
    /\ AtEndpoint(r, "health_check")
    /\ \E ctor_ok \in BOOLEAN :
        /\ log' = [log EXCEPT ![r].ctor = Append(@, Handle("anonymous", None)),
                              ![r].raised = IF ctor_ok THEN << >> ELSE <<CtorError>>]
        /\ Finish(r, HealthResult(ctor_ok))
    /\ UNCHANGED <<cvars, req, endpoint, ytmusic, temp_path, fs>>

\* ------------------------------------------------------------------- setup

\* The steps of setup_browser in the order of the code: create the temporary
\* file, ytmusic_setup, read it back, copy to data.filepath when one is given.
SetupOrder == <<"tempfile", "ytmusic_setup", "json.load", "shutil.copy">>
SetupSteps == {SetupOrder[i] : i \in DOMAIN SetupOrder}
SetupPlanned(filepath) == IF Truthy(filepath) THEN SetupOrder ELSE SubSeq(SetupOrder, 1, 3)

\* a setup_browser that goes on to the next step after a step has failed
SetupRanAll(fails, filepath) == SetupPlanned(filepath)

\* The steps that run when step `fails` raises ("none": no step raises): an
\* exception leaves the try block, so nothing after the failing step runs.
SetupRan(fails, filepath) ==
    LET planned == SetupPlanned(filepath)
    IN IF \E i \in DOMAIN planned : planned[i] = fails
       THEN SubSeq(planned, 1, CHOOSE i \in DOMAIN planned : planned[i] = fails)
       ELSE planned

\* a setup_browser whose cleanup runs on the success path alone
SetupCleanupOnSuccess(files, path, failed) == IF failed THEN files ELSE Unlink(files, path)

\* finally: if os.path.exists(tmp_path): os.unlink(tmp_path)
SetupCleanup(files, path, failed) == Unlink(files, path)

\* a setup_browser whose temporary file is created outside the try block
SetupFailedOutsideTry(detail) ==
    IF detail = "tempfile" THEN Unhandled
    ELSE Raised("setup_browser",
                HTTPException(HTTP_400_BAD_REQUEST, <<"Setup failed: ", detail>>))

\* except Exception as exn: raise HTTPException(400, f"Setup failed: {exn}")
SetupFailed(detail) ==
    Raised("setup_browser", HTTPException(HTTP_400_BAD_REQUEST, <<"Setup failed: ", detail>>))

\* SetupWithContent(success=True, filepath=data.filepath or tmp_path, ...)
SetupWithContent(filepath, tmp_path) ==
    Response("setup_browser", 200, << >>,
             <<"success", IF Truthy(filepath) THEN filepath ELSE tmp_path>>)

setup_browser(r) ==
    /\ AtEndpoint(r, "setup_browser")
    /\ LET data == [headers_raw |-> req[r].body.headers_raw,
                    filepath |-> Field(req[r].body, "filepath", None)]
           tmp_path == SetupTmp
           call == Call("ytmusic_setup", <<tmp_path, data.headers_raw>>)
       IN \E fails \in SetupSteps \cup {"none"} :
           /\ fails = "shutil.copy" => Truthy(data.filepath)
           /\ LET ran == SetupRan(fails, data.filepath)
                  Ran(step) == \E i \in DOMAIN ran : ran[i] = step
                  Ok(step) == Ran(step) /\ fails # step
                  failed == Ran(fails)
                  \* what the temporary file holds when it is read or copied
                  written == IF Ok("ytmusic_setup") /\ fails # "json.load"
                             THEN File(data.headers_raw, r)
                             ELSE IF Ok("ytmusic_setup") THEN File("garbled", r)
                             ELSE File("empty", r)
                  created == IF Ok("tempfile") THEN [fs EXCEPT ![tmp_path] = written] ELSE fs
                  copied == IF Ok("shutil.copy")
                            THEN [created EXCEPT ![data.filepath] = created[tmp_path]]
                            ELSE created
              IN /\ log' = [(IF Ran("ytmusic_setup") THEN Logged(r, call) ELSE log) EXCEPT
                              ![r].steps = ran,
                              ![r].raised = IF failed THEN <<<<fails>>>> ELSE << >>]
                 /\ fs' = IF Ok("tempfile") THEN SetupCleanup(copied, tmp_path, failed)
                          ELSE copied
                 /\ Finish(r, IF failed THEN SetupFailed(fails)
                              ELSE SetupWithContent(data.filepath, tmp_path))
    /\ UNCHANGED <<cvars, req, endpoint, ytmusic, temp_path>>

setup_oauth(r) ==
    /\ AtEndpoint(r, "setup_oauth")
    /\ Finish(r, Response("setup_oauth", 200, << >>,
                          <<"message", "Use ytmusicapi CLI: ytmusicapi oauth">>))
    /\ UNCHANGED <<cvars, req, endpoint, ytmusic, temp_path, log, fs>>

\* -------------------------------------------------------------- the server
Endpoint(r) ==
    \/ health_check(r)
    \/ setup_browser(r)
    \/ setup_oauth(r)
    \/ get_playlist(r)
    \/ create_playlist(r)
    \/ edit_playlist(r)
    \/ delete_playlist(r)
    \/ add_playlist_items(r)
    \/ remove_playlist_items(r)
    \/ get_library_playlists(r)
    \/ get_library_songs(r)
    \/ get_library_albums(r)
    \/ get_library_artists(r)
    \/ get_liked_songs(r)
    \/ get_history(r)
    \/ rate_song(r)
    \/ subscribe_artists(r)
    \/ get_upload_songs(r)
    \/ get_upload_albums(r)
    \/ upload_song_read(r)
    \/ upload_song(r)
    \/ delete_upload(r)
    \/ podcasts_stub(r)
    \/ explore_stub(r)
    \/ search(r)
    \/ browsing_stub(r)

InitServer ==
    /\ exc = << >>
    /\ http_exc = NoExc
    /\ InitRequests
    /\ InitFs

\* one request at a time
First == CHOOSE r \in Req : \A q \in Req : r <= q

Next ==
    \/ Receive(First)
    \/ Router(First)
    \/ Depends(First)
    \/ Validate(First)
    \/ Endpoint(First)
    \/ Respond(First)

Spec == InitServer /\ [][Next]_vars

\* uploads in flight together
UploadMethod == "POST"
UploadPath == <<"api", "uploads", "songs">>
ReceiveUpload(r) ==
    /\ pc[r] = "idle"
    /\ \E name \in UploadNames :
        Arrive(r, Request(UploadMethod, UploadPath, None, None, [file |-> name]))

NextUpload ==
    \E r \in Req :
        \/ ReceiveUpload(r)
        \/ Router(r)
        \/ Depends(r)
        \/ Validate(r)
        \/ upload_song_read(r)
        \/ upload_song(r)
        \/ Respond(r)

InitUpload ==
    /\ exc = << >>
    /\ http_exc = NoExc
    /\ InitRequests
    /\ InitFsUpload

SpecUpload == InitUpload /\ [][NextUpload]_vars

\* =================================================================== claims
Classified401 == Contains(Lower(exc), KwAuthentication)
Classified404 == Contains(Lower(exc), KwNotFound)
Classified400 == Contains(Lower(exc), KwInvalid) \/ Contains(Lower(exc), KwBad)

\* C1: handle_ytmusic_error classifies the lowercased message first match
\* wins: "authentication" -> 401, else "not found" -> 404, else "invalid" or
\* "bad" -> 400, else 500 with the detail prefixed "Internal error: "; the
\* first three keep the message as detail, and the status is always one of
\* the four.
C1_FirstMatchWins ==
    http_exc # NoExc =>
        /\ http_exc.status_code \in {HTTP_401_UNAUTHORIZED, HTTP_404_NOT_FOUND,
                                     HTTP_400_BAD_REQUEST, HTTP_500_INTERNAL_SERVER_ERROR}
        /\ http_exc.status_code = HTTP_401_UNAUTHORIZED <=> Classified401
        /\ http_exc.status_code = HTTP_404_NOT_FOUND <=> (~Classified401 /\ Classified404)
        /\ http_exc.status_code = HTTP_400_BAD_REQUEST
              <=> (~Classified401 /\ ~Classified404 /\ Classified400)
        /\ http_exc.status_code = HTTP_500_INTERNAL_SERVER_ERROR
              <=> (~Classified401 /\ ~Classified404 /\ ~Classified400)
        /\ http_exc.detail = IF http_exc.status_code = HTTP_500_INTERNAL_SERVER_ERROR
                             THEN InternalErrorPrefix \o exc ELSE exc

\* a message in mixed case matching the first two rules was classified 401
C1_Witness ==
    /\ http_exc # NoExc
    /\ exc = <<"Authentic", "ation", "not ", "found">>
    /\ http_exc.status_code = HTTP_401_UNAUTHORIZED

Supplied(header) == Truthy(header)
ResolverRan(r) == log[r].resolver > 0
ResolverFailed(r) == ResolverRan(r) /\ ytmusic[r] = NoHandle
Starts(detail, prefix) == Len(detail) >= 1 /\ detail[1] = prefix

C3_ResolverOncePerRequest ==
    \A r \in Req :
        /\ (endpoint[r] \in UsesYtMusic /\ pc[r] \in {"validate", "endpoint", "reading"}) =>
              /\ log[r].resolver = 1
              /\ Len(log[r].ctor) = 1
              /\ ytmusic[r] = log[r].ctor[1]
        /\ (endpoint[r] \in UsesYtMusic /\ pc[r] = "done") => log[r].resolver = 1
        /\ log[r].upstream # << >> /\ endpoint[r] \in UsesYtMusic =>
              log[r].resolver = 1 /\ ytmusic[r] # NoHandle
        /\ ResolverFailed(r) =>
              /\ pc[r] = "done"
              /\ log[r].upstream = << >>
              /\ resp[r].by \in {"get_ytmusic", "server"}
              /\ resp[r].status_code \in {HTTP_400_BAD_REQUEST, HTTP_500_INTERNAL_SERVER_ERROR}

\* a request whose resolver failed has ended with the resolver's 400
C3_Witness ==
    \E r \in Req :
        /\ endpoint[r] = "get_library_playlists"
        /\ ResolverFailed(r)
        /\ pc[r] = "done"
        /\ resp[r].by = "get_ytmusic"
        /\ log[r].upstream = << >>

Undecodable(r) == JsonLoads(req[r].x_auth_data) # "dict"

InlineRejected(r) ==
    /\ pc[r] = "done"
    /\ resp[r].status_code = HTTP_400_BAD_REQUEST
    /\ resp[r].by = "get_ytmusic"
    /\ ytmusic[r] = NoHandle
    /\ log[r].ctor = << >>
    /\ log[r].upstream = << >>

\* C4 as stated: an X-Auth-Data header whose value does not decode to a JSON
\* object ends the request in the resolver with status 400: no handle of any
\* kind is built and nothing else runs.
C4_UndecodableInlineIs400 ==
    \A r \in Req :
        (ResolverRan(r) /\ req[r].x_auth_data # None /\ Undecodable(r)) => InlineRejected(r)

\* C4 amended: the same for a header whose value is not empty.
C4_NonEmptyUndecodableInlineIs400 ==
    \A r \in Req :
        (ResolverRan(r) /\ req[r].x_auth_data \notin {None, EmptyHeader} /\ Undecodable(r))
            => InlineRejected(r)

\* valid JSON that is not a mapping, beside an existing auth file: 400
C4_Witness ==
    \E r \in Req :
        /\ req[r].x_auth_data = JsonList
        /\ req[r].x_auth_file = AuthFile
        /\ resp[r].status_code = HTTP_400_BAD_REQUEST
        /\ resp[r].detail = <<"Authentication failed: ", "AttributeError">>

\* C5: with the file-path header alone and no file at that path, the request
\* ends with status 400, the detail contains the path as supplied and no
\* client handle is constructed.
C5_MissingFileIs400 ==
    \A r \in Req :
        (ResolverRan(r) /\ ~Supplied(req[r].x_auth_data) /\ Supplied(req[r].x_auth_file)
                        /\ ~Exists(fs, req[r].x_auth_file)) =>
            /\ pc[r] = "done"
            /\ resp[r].status_code = HTTP_400_BAD_REQUEST
            /\ Contains(resp[r].detail, <<req[r].x_auth_file>>)
            /\ log[r].ctor = << >>
            /\ ytmusic[r] = NoHandle

\* the path that exists only once a setup wrote it was found missing
C5_Witness ==
    \E r \in Req :
        /\ req[r].x_auth_data = None
        /\ req[r].x_auth_file = BrowserJson
        /\ resp[r].status_code = HTTP_400_BAD_REQUEST
        /\ resp[r].detail = <<"Authentication file not found: ", BrowserJson>>

\* C6: a failure of the client constructor in the resolver, whichever branch
\* called it, is reported as an authentication-class error (400 or 401) and
\* not as an unhandled exception.
C6_CtorFailureIsAuthError ==
    \A r \in Req :
        (ResolverFailed(r) /\ log[r].ctor # << >>) =>
            /\ resp[r].status_code \in {HTTP_400_BAD_REQUEST, HTTP_401_UNAUTHORIZED}
            /\ resp[r].by = "get_ytmusic"

ClaimedId(result) ==
    IF result.type = "dict"
    THEN IF result.playlistId \notin {None, ""} THEN result.playlistId ELSE result.id
    ELSE result.value

\* C7: create-playlist takes the id from the upstream result (playlistId,
\* falling back to id, of a mapping; else the result itself), answers 200
\* with {playlist_id: id} when it is non-empty and a 500 internal error, never
\* an empty playlist_id, when it is not.
C7_PlaylistIdExtraction ==
    \A r \in Req :
        (pc[r] = "done" /\ endpoint[r] = "create_playlist" /\ log[r].returned # << >>) =>
            LET id == ClaimedId(log[r].returned[1])
            IN IF id \notin {None, ""}
               THEN /\ resp[r].status_code = 200
                    /\ resp[r].content = <<"playlist_id", id>>
               ELSE /\ resp[r].status_code = HTTP_500_INTERNAL_SERVER_ERROR
                    /\ Starts(resp[r].detail, "Internal error: ")
                    /\ resp[r].content = << >>

\* a mapping without playlistId gave its id
C7_Witness ==
    \E r \in Req :
        /\ pc[r] = "done"
        /\ log[r].returned = <<DictResult(None, "PL456")>>
        /\ resp[r].content = <<"playlist_id", "PL456">>

\* C8: once upload_song has returned, with a result or an exception, nothing
\* exists at the temporary path it used.
C8_UploadTempFileRemoved ==
    \A r \in Req :
        (pc[r] = "done" /\ temp_path[r] # None) => ~Exists(fs, temp_path[r])

\* the upstream upload raised after the file was written, and the file is gone
C8_Witness ==
    \E r \in Req :
        /\ pc[r] = "done"
        /\ temp_path[r] # None
        /\ log[r].upstream # << >>
        /\ resp[r] = Unhandled
        /\ ~Exists(fs, temp_path[r])

\* C9: two uploads in flight together use different temporary paths.
C9_UploadPathsUnique ==
    \A r, q \in Req :
        (r # q /\ pc[r] = "reading" /\ pc[q] = "reading") => temp_path[r] # temp_path[q]

UnderStubPrefix(path) ==
    Len(path) >= 3 /\ path[1] = "api" /\ path[2] \in {"podcasts", "explore", "browsing"}

DomainOf(path) ==
    CASE path[2] = "podcasts" -> "Podcasts"
      [] path[2] = "explore" -> "Explore"
      [] path[2] = "browsing" -> "Browsing"

StubAnswer(r) ==
    /\ resp[r].status_code = HTTP_501_NOT_IMPLEMENTED
    /\ resp[r].detail = <<DomainOf(req[r].path), " domain not implemented">>
    /\ log[r] = NoLog
    /\ ytmusic[r] = NoHandle

HandlerRan(r, name) == pc[r] = "done" /\ endpoint[r] = name /\ log[r].steps # << >>
Failed(r) == log[r].raised # << >>
UnderSearch(path) == Len(path) >= 3 /\ path[1] = "api" /\ path[2] = "search"
Mentions(detail, text) == \E i \in DOMAIN detail : detail[i] = text

\* C11: a request to a sub-path under /api/search/, such as POST
\* /api/search/test, is answered 501 with a detail containing "not
\* implemented".
C11_SearchSubpathIs501 ==
    \A r \in Req :
        (pc[r] = "done" /\ UnderSearch(req[r].path)) =>
            /\ resp[r].status_code = HTTP_501_NOT_IMPLEMENTED
            /\ Mentions(resp[r].detail, " domain not implemented")

HealthRequest(r) == pc[r] = "done" /\ req[r].method = "GET" /\ req[r].path = <<"health">>

\* C12: GET /health constructs one anonymous client whatever the auth
\* headers say, without running the resolver or testing a path; it answers
\* 200 {status: healthy} exactly when the constructor returns and 503
\* "Service unhealthy: <detail>" exactly when it raises.
C12_HealthCheck ==
    \A r \in Req :
        HealthRequest(r) =>
            /\ log[r].resolver = 0
            /\ log[r].stat = << >>
            /\ log[r].ctor = <<Handle("anonymous", None)>>
            /\ ytmusic[r] = NoHandle
            /\ resp[r].status_code \in {200, HTTP_503_SERVICE_UNAVAILABLE}
            /\ ~Failed(r) <=> /\ resp[r].status_code = 200
                              /\ resp[r].content = <<"status", "healthy">>
            /\ Failed(r) <=> /\ resp[r].status_code = HTTP_503_SERVICE_UNAVAILABLE
                             /\ resp[r].detail = <<"Service unhealthy: ">> \o log[r].raised[1]

\* a health check carrying both auth headers, one of them undecodable, found
\* the constructor failing and answered 503
C12_Witness ==
    \E r \in Req :
        /\ HealthRequest(r)
        /\ req[r].x_auth_data = BadJson
        /\ req[r].x_auth_file = MissingFile
        /\ Failed(r)
        /\ resp[r].status_code = HTTP_503_SERVICE_UNAVAILABLE

\* C13: after setup_browser has finished, on success or on the failure of
\* ytmusic_setup, of the read-back or of the copy, its temporary file does
\* not exist.
C13_SetupTempFileRemoved ==
    \A r \in Req : HandlerRan(r, "setup_browser") => ~Exists(fs, SetupTmp)

\* the copy to data.filepath failed after the temporary file was created and
\* filled, and the temporary file is gone
C13_Witness ==
    \E r \in Req :
        /\ HandlerRan(r, "setup_browser")
        /\ log[r].raised = <<<<"shutil.copy">>>>
        /\ log[r].steps = SetupOrder
        /\ ~Exists(fs, SetupTmp)

CallerPath(r) == Field(req[r].body, "filepath", None)

\* C14: POST /api/setup with a caller-specified filepath calls ytmusic_setup
\* exactly once with that filepath and the given headers_raw, and when the
\* routine does not raise the response is 200, success, with filepath equal
\* to the caller's.
C14_SetupCalledWithCallerPath ==
    \A r \in Req :
        (HandlerRan(r, "setup_browser") /\ Truthy(CallerPath(r))
            /\ log[r].raised \notin {<<<<"tempfile">>>>}) =>
            /\ log[r].upstream =
                  <<Call("ytmusic_setup", <<CallerPath(r), req[r].body.headers_raw>>)>>
            /\ ~Failed(r) => /\ resp[r].status_code = 200
                             /\ resp[r].content = <<"success", CallerPath(r)>>

\* C15: a failure of any step of setup_browser (temporary file, ytmusic_setup,
\* read-back, copy) is answered 400 "Setup failed: <detail>", never 200 or
\* 500.
C15_SetupFailureIs400 ==
    \A r \in Req :
        (HandlerRan(r, "setup_browser") /\ Failed(r)) =>
            /\ resp[r].status_code = HTTP_400_BAD_REQUEST
            /\ resp[r].detail = <<"Setup failed: ">> \o log[r].raised[1]
            /\ resp[r].by = "setup_browser"

\* the temporary file could not be created, and the answer is 400
C15_Witness ==
    \E r \in Req :
        /\ HandlerRan(r, "setup_browser")
        /\ log[r].raised = <<<<"tempfile">>>>
        /\ log[r].steps = <<"tempfile">>
        /\ resp[r].status_code = HTTP_400_BAD_REQUEST

PlaylistEndpoints ==
    {"get_playlist", "create_playlist", "edit_playlist", "delete_playlist",
     "add_playlist_items", "remove_playlist_items"}
\* the upstream operation of the request raised
UpstreamFailed(r) == Failed(r) /\ log[r].raised[1] \in ErrMsgs \cup {<<"ytmusic_setup">>}

\* C16: an upstream failure in any playlist endpoint (get, create, edit,
\* delete, add items, remove items) is answered with the classifier's
\* HTTPException for the error text.
C16_PlaylistErrorsClassified ==
    \A r \in Req :
        (pc[r] = "done" /\ endpoint[r] \in PlaylistEndpoints /\ UpstreamFailed(r)) =>
            /\ log[r].classifier = 1
            /\ resp[r] = Raised("handle_ytmusic_error", handle_ytmusic_error(log[r].raised[1]))

\* C17: the upstream create_playlist call receives privacy_status "PRIVATE"
\* when the body omits it and the body's value when it supplies one.
C17_DefaultPrivacy ==
    \A r \in Req :
        (pc[r] = "done" /\ endpoint[r] = "create_playlist" /\ resp[r].by # "validation"
            /\ ~ResolverFailed(r)) =>
            /\ Len(log[r].upstream) = 1
            /\ log[r].upstream[1].op = "create_playlist"
            /\ log[r].upstream[1].args[3] =
                  IF "privacy_status" \in DOMAIN req[r].body
                  THEN req[r].body.privacy_status ELSE "PRIVATE"

\* a body without privacy_status reached the upstream call as PRIVATE, and a
\* playlist id came back
C17_Witness ==
    \E r \in Req :
        /\ pc[r] = "done"
        /\ endpoint[r] = "create_playlist"
        /\ "privacy_status" \notin DOMAIN req[r].body
        /\ log[r].upstream =
              <<Call("create_playlist", <<"Test Playlist", "Test Description", "PRIVATE">>)>>
        /\ resp[r].status_code = 200

\* the endpoint's code was entered: routing, the resolver and the validation
\* of the body succeeded
Reached(r) ==
    /\ pc[r] = "done"
    /\ endpoint[r] # None
    /\ resp[r].by # "validation"
    /\ ~ResolverFailed(r)
UsesUpstream == UsesYtMusic \cup {"setup_browser"}
\* a step of the endpoint's own, ahead of its upstream call, failed
FailedBeforeCall(r) ==
    /\ Failed(r)
    /\ \/ endpoint[r] = "upload_song" /\ log[r].raised = <<WriteError>>
       \/ endpoint[r] = "setup_browser" /\ log[r].raised = <<<<"tempfile">>>>
UpstreamFailureEndsRequest(r) ==
    (pc[r] = "done" /\ UpstreamFailed(r)) =>
        /\ Len(log[r].upstream) = 1
        /\ resp[r].status_code >= 400

\* C18 as stated: a request invokes its upstream operation at most once, and
\* exactly once when the resolver and the validation of the body succeed; an
\* upstream failure ends the request with an error response.
C18_NoRetries ==
    \A r \in Req :
        /\ Len(log[r].upstream) <= 1
        /\ (Reached(r) /\ endpoint[r] \in UsesUpstream) => Len(log[r].upstream) = 1
        /\ UpstreamFailureEndsRequest(r)

\* C18 amended: exactly once when, besides, no step of the endpoint's own
\* ahead of the call (writing the upload to /tmp, creating setup's temporary
\* file) failed; then the operation is not invoked at all.
C18_NoRetriesUnlessLocalStepFails ==
    \A r \in Req :
        /\ Len(log[r].upstream) <= 1
        /\ (Reached(r) /\ endpoint[r] \in UsesUpstream) =>
              Len(log[r].upstream) = (IF FailedBeforeCall(r) THEN 0 ELSE 1)
        /\ UpstreamFailureEndsRequest(r)

\* get_playlist failed upstream with "not found": one call, answered 404
C18_Witness ==
    \E r \in Req :
        /\ Reached(r)
        /\ endpoint[r] = "get_playlist"
        /\ log[r].raised = <<<<"Playlist ", "not ", "found">>>>
        /\ log[r].upstream = <<Call("get_playlist", <<"PL123">>)>>
        /\ resp[r].status_code = HTTP_404_NOT_FOUND

IsPrefix(s, t) == Len(s) <= Len(t) /\ SubSeq(t, 1, Len(s)) = s
Last(s) == s[Len(s)]
SetupInOrder(r) ==
    HandlerRan(r, "setup_browser") =>
        /\ IsPrefix(log[r].steps, SetupOrder)
        /\ Failed(r) => log[r].raised = <<<<Last(log[r].steps)>>>>
        /\ ~Failed(r) => log[r].steps = SetupPlanned(CallerPath(r))
CreateInOrder(r) ==
    (pc[r] = "done" /\ endpoint[r] = "create_playlist" /\ UpstreamFailed(r)) =>
        /\ log[r].steps = <<"create_playlist">>
        /\ log[r].returned = << >>
        /\ resp[r].content = << >>
        /\ resp[r].status_code >= 400
\* a setup_browser that fails before its copy leaves every file as it was
SetupLeavesFiles(r) ==
    (/\ AtEndpoint(r, "setup_browser")
     /\ pc'[r] = "done"
     /\ log'[r].raised \in {<<<<"tempfile">>>>, <<<<"ytmusic_setup">>>>, <<<<"json.load">>>>})
        => fs' = fs

\* C19: setup_browser runs its steps in order and stops at the first that
\* fails: no read-back after a failed ytmusic_setup, no copy after either
\* failed, the caller's file left as it was; create_playlist extracts no id
\* and returns no playlist_id after a failed upstream call.
C19_StepsInOrder ==
    /\ [](\A r \in Req : SetupInOrder(r) /\ CreateInOrder(r))
    /\ [][\A r \in Req : SetupLeavesFiles(r)]_vars

\* the read-back failed on a second setup, and browser.json still holds what
\* the first setup generated from other headers
C19_Witness ==
    \E r \in Req :
        /\ HandlerRan(r, "setup_browser")
        /\ req[r].body.headers_raw = "cookie: test"
        /\ CallerPath(r) = BrowserJson
        /\ log[r].steps = <<"tempfile", "ytmusic_setup", "json.load">>
        /\ log[r].raised = <<<<"json.load">>>>
        /\ fs[BrowserJson].kind = "cookie: other"

\* C20: when setup_browser answers success, the filepath it reports names a
\* file that exists, with or without a filepath in the request.
C20_ReportedFileExists ==
    \A r \in Req :
        (HandlerRan(r, "setup_browser") /\ resp[r].status_code = 200) =>
            /\ resp[r].content[2] \in Paths
            /\ Exists(fs, resp[r].content[2])

====
